---- MODULE Spec2Model ----
(***************************************************************************)
(* Model of Memory_Simulator/memory_manager.py: the MemoryManager block    *)
(* list with first-fit / best-fit placement, splitting and coalescing.     *)
(* The list self.memory is a sequence of block records (1-based here,      *)
(* 0-based in the source); every public method is one action.              *)
(***************************************************************************)
EXTENDS Integers, Sequences, FiniteSets, TLC

\* Largest total_memory_size a manager is built with.
MaxTotal == 4
\* Owner (process) ids range over 1..MaxPid.
MaxPid == 2
\* The front end creates at most MaxProcesses processes.
MaxProcesses == 4

\* Python's None, as a pid of a free block and as a returned address.
None == -1

Pids == 1..MaxPid
Strategies == {"first_fit", "best_fit", "worst_fit"}

VARIABLES
    total_memory_size,  \* self.total_memory_size
    memory,             \* self.memory, the block list
    call,               \* the last public call and its arguments
    ret,                \* what that call returned
    pre,                \* self.memory when that call was entered
    coalesced,          \* whether that call ran _coalesce_free_blocks
    current_strategy,   \* self.current_strategy, written by the front end only
    next_pid,           \* Process.next_pid
    processes,          \* run_cli's dictionary of active processes (its keys)
    passed,             \* the pids run_cli has passed to allocate_memory
    other               \* a second MemoryManager of the same total size

\* The manager, with the record of its last call.
manager == <<total_memory_size, memory, call, ret, pre, coalesced>>
\* What only run_cli writes.
front_end == <<current_strategy, next_pid, processes, passed>>

vars == <<total_memory_size, memory, call, ret, pre, coalesced,
          current_strategy, next_pid, processes, passed, other>>

\* self.current_strategy = None, until the front end sets it.
NoStrategy == "None"

\* Request sizes tried on a manager of total size t: non-positive ones,
\* every size that can fit and one that cannot.
Sizes(t) == (-1)..(t + 1)

FreeBlock(start, size) ==
    [start |-> start, size |-> size, status |-> "free", pid |-> None]

OccupiedBlock(start, size, process_id) ==
    [start |-> start, size |-> size, status |-> "occupied", pid |-> process_id]

----------------------------------------------------------------------------
(* _find_block_first_fit: index of the first free block that is large      *)
(* enough, 0 for (None, None).                                             *)
RECURSIVE FirstFitFrom(_, _, _)
FirstFitFrom(mem, size_required, i) ==
    IF i > Len(mem) THEN 0
    ELSE IF mem[i].status = "free" /\ mem[i].size >= size_required THEN i
    ELSE FirstFitFrom(mem, size_required, i + 1)

\* Slip: '>' for '>=', so a block of exactly the requested size is passed over.
RECURSIVE FirstFitStrictFrom(_, _, _)
FirstFitStrictFrom(mem, size_required, i) ==
    IF i > Len(mem) THEN 0
    ELSE IF mem[i].status = "free" /\ mem[i].size > size_required THEN i
    ELSE FirstFitStrictFrom(mem, size_required, i + 1)

_find_block_first_fit_Strict(mem, size_required) ==
    FirstFitStrictFrom(mem, size_required, 1)

_find_block_first_fit(mem, size_required) == FirstFitFrom(mem, size_required, 1)

(* _find_block_best_fit: the scan keeps best_fit_index and                 *)
(* min_fragmentation; min_fragmentation is float('inf') exactly while      *)
(* best_fit_index is None (0 here).                                        *)
\* Slip: '<=' for '<', so the last of several equally good blocks wins.
BestFitUpdates_OnTie(fragmentation, best_fit_index, min_fragmentation) ==
    best_fit_index = 0 \/ fragmentation <= min_fragmentation

BestFitUpdates(fragmentation, best_fit_index, min_fragmentation) ==
    best_fit_index = 0 \/ fragmentation < min_fragmentation

RECURSIVE BestFitFrom(_, _, _, _, _)
BestFitFrom(mem, size_required, i, best_fit_index, min_fragmentation) ==
    IF i > Len(mem) THEN best_fit_index
    ELSE IF /\ mem[i].status = "free"
            /\ mem[i].size >= size_required
            /\ BestFitUpdates(mem[i].size - size_required,
                              best_fit_index, min_fragmentation)
         THEN BestFitFrom(mem, size_required, i + 1,
                          i, mem[i].size - size_required)
         ELSE BestFitFrom(mem, size_required, i + 1,
                          best_fit_index, min_fragmentation)

_find_block_best_fit(mem, size_required) ==
    BestFitFrom(mem, size_required, 1, 0, 0)

\* The dictionary lookup {'first_fit': ..., 'best_fit': ...}.get(strategy).
find_block_func(strategy, mem, size_required) ==
    IF strategy = "first_fit" THEN _find_block_first_fit(mem, size_required)
    ELSE _find_block_best_fit(mem, size_required)

\* Slip: the 'best_fit' entry is missing from the dictionary.
KnownStrategy_OnlyFirstFit(strategy) == strategy = "first_fit"

KnownStrategy(strategy) == strategy \in {"first_fit", "best_fit"}

\* self.memory[block_index:block_index+1] = [new_occupied_block, new_free_block]
SplitBlock(mem, block_index, process_id, size_required) ==
    LET block == mem[block_index] IN
    SubSeq(mem, 1, block_index - 1)
      \o << OccupiedBlock(block.start, size_required, process_id),
            FreeBlock(block.start + size_required, block.size - size_required) >>
      \o SubSeq(mem, block_index + 1, Len(mem))

\* Slip: the exact-fit branch sets the status and forgets the pid.
ExactFit_ForgetsPid(mem, block_index, process_id) ==
    [mem EXCEPT ![block_index].status = "occupied"]

\* block['status'] = 'occupied'; block['pid'] = process_id
ExactFit(mem, block_index, process_id) ==
    [mem EXCEPT ![block_index].status = "occupied",
                ![block_index].pid = process_id]

\* Slip: the size_required <= 0 check is missing.
allocate_memory_NoSizeCheck(mem, process_id, size_required, strategy) ==
    IF ~KnownStrategy(strategy) THEN [memory |-> mem, ret |-> None]
    ELSE LET block_index == find_block_func(strategy, mem, size_required) IN
         IF block_index # 0
         THEN IF mem[block_index].size = size_required
              THEN [memory |-> ExactFit(mem, block_index, process_id),
                    ret |-> mem[block_index].start]
              ELSE [memory |-> SplitBlock(mem, block_index, process_id,
                                          size_required),
                    ret |-> mem[block_index].start]
         ELSE [memory |-> mem, ret |-> None]

\* Slip: the no-block branch returns 0, which is also an address.
allocate_memory_ZeroOnNoFit(mem, process_id, size_required, strategy) ==
    IF size_required <= 0 THEN [memory |-> mem, ret |-> None]
    ELSE IF ~KnownStrategy(strategy) THEN [memory |-> mem, ret |-> None]
    ELSE LET block_index == find_block_func(strategy, mem, size_required) IN
         IF block_index # 0
         THEN IF mem[block_index].size = size_required
              THEN [memory |-> ExactFit(mem, block_index, process_id),
                    ret |-> mem[block_index].start]
              ELSE [memory |-> SplitBlock(mem, block_index, process_id,
                                          size_required),
                    ret |-> mem[block_index].start]
         ELSE [memory |-> mem, ret |-> 0]

(* allocate_memory: the new block list and the returned address.           *)
allocate_memory(mem, process_id, size_required, strategy) ==
    IF size_required <= 0 THEN [memory |-> mem, ret |-> None]
    ELSE IF ~KnownStrategy(strategy) THEN [memory |-> mem, ret |-> None]
    ELSE LET block_index == find_block_func(strategy, mem, size_required) IN
         IF block_index # 0
         THEN IF mem[block_index].size = size_required
              THEN [memory |-> ExactFit(mem, block_index, process_id),
                    ret |-> mem[block_index].start]
              ELSE [memory |-> SplitBlock(mem, block_index, process_id,
                                          size_required),
                    ret |-> mem[block_index].start]
         ELSE [memory |-> mem, ret |-> None]

----------------------------------------------------------------------------
(* _coalesce_free_blocks                                                    *)

\* The inner while loop: the index j just past the run of free blocks that
\* starts at i.
\* Slip: 'if' for 'while', so only one following free block is merged.
RunEnd_OneStep(mem, j) ==
    IF j <= Len(mem) /\ mem[j].status = "free" THEN j + 1 ELSE j

RECURSIVE RunEnd(_, _)
RunEnd(mem, j) ==
    IF j <= Len(mem) /\ mem[j].status = "free" THEN RunEnd(mem, j + 1) ELSE j

\* merged_block['size'] += self.memory[j]['size'] for j in i+1 .. end-1
RECURSIVE RunSize(_, _, _)
RunSize(mem, i, end) ==
    IF i >= end THEN 0 ELSE mem[i].size + RunSize(mem, i + 1, end)

\* Slip: the sizes of the following free blocks are not added.
MergedBlock_KeepsSize(mem, i, end) == mem[i]

MergedBlock(mem, i, end) ==
    [mem[i] EXCEPT !.size = RunSize(mem, i, end)]

\* Slip: after a merge the scan goes on at i + 1 instead of j.
RECURSIVE CoalesceFrom_AdvancesByOne(_, _)
CoalesceFrom_AdvancesByOne(mem, i) ==
    IF i > Len(mem) THEN << >>
    ELSE IF mem[i].status = "free"
         THEN LET j == RunEnd(mem, i + 1) IN
              << MergedBlock(mem, i, j) >>
                  \o CoalesceFrom_AdvancesByOne(mem, i + 1)
         ELSE << mem[i] >> \o CoalesceFrom_AdvancesByOne(mem, i + 1)

\* The outer while loop, building new_memory.
RECURSIVE CoalesceFrom(_, _)
CoalesceFrom(mem, i) ==
    IF i > Len(mem) THEN << >>
    ELSE IF mem[i].status = "free"
         THEN LET j == RunEnd(mem, i + 1) IN
              << MergedBlock(mem, i, j) >> \o CoalesceFrom(mem, j)
         ELSE << mem[i] >> \o CoalesceFrom(mem, i + 1)

\* list.sort(key=lambda block: block['start']): a stable insertion sort.
RECURSIVE InsertByStart(_, _)
InsertByStart(sorted, block) ==
    IF sorted = << >> THEN << block >>
    ELSE IF sorted[Len(sorted)].start <= block.start
         THEN Append(sorted, block)
         ELSE Append(InsertByStart(SubSeq(sorted, 1, Len(sorted) - 1), block),
                     sorted[Len(sorted)])

RECURSIVE SortByStartFrom(_, _, _)
SortByStartFrom(mem, i, sorted) ==
    IF i > Len(mem) THEN sorted
    ELSE SortByStartFrom(mem, i + 1, InsertByStart(sorted, mem[i]))

SortByStart(mem) == SortByStartFrom(mem, 1, << >>)

_coalesce_free_blocks(mem) == SortByStart(CoalesceFrom(mem, 1))

----------------------------------------------------------------------------
(* deallocate_memory                                                        *)

\* The search loop: index of the first occupied block of process_id, 0 for
\* found_block_index = None.
\* Slip: the 'break' is missing, so the last matching block is kept.
RECURSIVE FindOwnerFrom_NoBreak(_, _, _)
FindOwnerFrom_NoBreak(mem, process_id, i) ==
    IF i > Len(mem) THEN 0
    ELSE LET later == FindOwnerFrom_NoBreak(mem, process_id, i + 1) IN
         IF later # 0 THEN later
         ELSE IF mem[i].status = "occupied" /\ mem[i].pid = process_id THEN i
         ELSE 0

RECURSIVE FindOwnerFrom(_, _, _)
FindOwnerFrom(mem, process_id, i) ==
    IF i > Len(mem) THEN 0
    ELSE IF mem[i].status = "occupied" /\ mem[i].pid = process_id THEN i
    ELSE FindOwnerFrom(mem, process_id, i + 1)

\* Slip: the pid of the freed block is not cleared.
MarkFree_KeepsPid(mem, found_block_index) ==
    [mem EXCEPT ![found_block_index].status = "free"]

\* block_to_free['status'] = 'free'; block_to_free['pid'] = None
MarkFree(mem, found_block_index) ==
    [mem EXCEPT ![found_block_index].status = "free",
                ![found_block_index].pid = None]

\* Slip: the call of _coalesce_free_blocks is missing.
FreeAndCoalesce_NoCoalescing(mem, found_block_index) ==
    [memory |-> MarkFree(mem, found_block_index),
     ret |-> TRUE, coalesced |-> FALSE]

\* What deallocate_memory does once the block is found.
FreeAndCoalesce(mem, found_block_index) ==
    [memory |-> _coalesce_free_blocks(MarkFree(mem, found_block_index)),
     ret |-> TRUE, coalesced |-> TRUE]

\* Slip: coalescing runs before the found_block_index check.
deallocate_memory_CoalescesFirst(mem, process_id) ==
    LET found_block_index == FindOwnerFrom(mem, process_id, 1) IN
    IF found_block_index = 0
    THEN [memory |-> _coalesce_free_blocks(mem), ret |-> FALSE,
          coalesced |-> TRUE]
    ELSE FreeAndCoalesce(mem, found_block_index)

deallocate_memory(mem, process_id) ==
    LET found_block_index == FindOwnerFrom(mem, process_id, 1) IN
    IF found_block_index = 0
    THEN [memory |-> mem, ret |-> FALSE, coalesced |-> FALSE]
    ELSE FreeAndCoalesce(mem, found_block_index)

----------------------------------------------------------------------------
(* The read-only queries.                                                   *)

\* sum(block['size'] for block in self.memory if block['status'] == status)
RECURSIVE SizeOfStatus(_, _, _)
SizeOfStatus(mem, status, i) ==
    IF i > Len(mem) THEN 0
    ELSE (IF mem[i].status = status THEN mem[i].size ELSE 0)
            + SizeOfStatus(mem, status, i + 1)

\* Slip: the generator filters on 'free' instead of 'occupied'.
occupied_size_CountsFree(mem) == SizeOfStatus(mem, "free", 1)

occupied_size(mem) == SizeOfStatus(mem, "occupied", 1)

\* get_memory_utilization: (occupied_size, free_size); the two percentages
\* are the float quotients of these by total_memory_size and are left out.
get_memory_utilization(mem, total) ==
    [occupied_size |-> occupied_size(mem),
     free_size |-> total - occupied_size(mem)]

\* free_blocks = [block['size'] for block in self.memory if ... == 'free']
RECURSIVE free_blocks(_, _)
free_blocks(mem, i) ==
    IF i > Len(mem) THEN << >>
    ELSE (IF mem[i].status = "free" THEN << mem[i].size >> ELSE << >>)
            \o free_blocks(mem, i + 1)

\* Python's max and min of a non-empty list.
RECURSIVE max(_)
max(sizes) ==
    IF Len(sizes) = 1 THEN sizes[1]
    ELSE LET rest == max(Tail(sizes)) IN
         IF sizes[1] >= rest THEN sizes[1] ELSE rest

RECURSIVE min(_)
min(sizes) ==
    IF Len(sizes) = 1 THEN sizes[1]
    ELSE LET rest == min(Tail(sizes)) IN
         IF sizes[1] <= rest THEN sizes[1] ELSE rest

\* Slip: smallest_free_block is taken with max.
smallest_free_block_UsesMax(sizes) == IF sizes # << >> THEN max(sizes) ELSE 0

largest_free_block(sizes) == IF sizes # << >> THEN max(sizes) ELSE 0
smallest_free_block(sizes) == IF sizes # << >> THEN min(sizes) ELSE 0

\* get_free_block_info: (num_free_blocks, largest, smallest)
get_free_block_info(mem) ==
    LET sizes == free_blocks(mem, 1) IN
    [num_free_blocks |-> Len(sizes),
     largest_free_block |-> largest_free_block(sizes),
     smallest_free_block |-> smallest_free_block(sizes)]

----------------------------------------------------------------------------
(* The manager as a state machine.                                          *)

\* MemoryManager.__init__: total_memory_size <= 0 raises ValueError, so a
\* constructed manager has total_memory_size >= 1.
Init ==
    /\ total_memory_size \in 1..MaxTotal
    /\ memory = << FreeBlock(0, total_memory_size) >>
    /\ call = [op |-> "init"]
    /\ ret = None
    /\ pre = memory
    /\ coalesced = FALSE
    /\ current_strategy = NoStrategy
    /\ next_pid = 1
    /\ processes = {}
    /\ passed = << >>
    /\ other = [memory |-> << FreeBlock(0, total_memory_size) >>,
                current_strategy |-> NoStrategy, ret |-> None]

Allocate(process_id, size_required, strategy) ==
    LET r == allocate_memory(memory, process_id, size_required, strategy) IN
    /\ memory' = r.memory
    /\ ret' = r.ret
    /\ call' = [op |-> "allocate", pid |-> process_id,
                size |-> size_required, strategy |-> strategy]
    /\ pre' = memory
    /\ coalesced' = FALSE
    /\ UNCHANGED total_memory_size

Deallocate(process_id) ==
    LET r == deallocate_memory(memory, process_id) IN
    /\ memory' = r.memory
    /\ ret' = r.ret
    /\ call' = [op |-> "deallocate", pid |-> process_id]
    /\ pre' = memory
    /\ coalesced' = r.coalesced
    /\ UNCHANGED total_memory_size

\* get_memory_utilization and get_free_block_info assign nothing.
GetMemoryUtilization ==
    /\ ret' = get_memory_utilization(memory, total_memory_size)
    /\ call' = [op |-> "get_memory_utilization"]
    /\ pre' = memory
    /\ coalesced' = FALSE
    /\ UNCHANGED <<total_memory_size, memory>>

GetFreeBlockInfo ==
    /\ ret' = get_free_block_info(memory)
    /\ call' = [op |-> "get_free_block_info"]
    /\ pre' = memory
    /\ coalesced' = FALSE
    /\ UNCHANGED <<total_memory_size, memory>>

\* A caller of the manager's methods with arbitrary arguments.
Next ==
    \/ \E process_id \in Pids, size_required \in Sizes(total_memory_size),
          strategy \in Strategies :
            /\ Allocate(process_id, size_required, strategy)
            /\ UNCHANGED <<front_end, other>>
    \/ \E process_id \in Pids :
            /\ Deallocate(process_id)
            /\ UNCHANGED <<front_end, other>>
    \/ GetMemoryUtilization /\ UNCHANGED <<front_end, other>>
    \/ GetFreeBlockInfo /\ UNCHANGED <<front_end, other>>

Spec == Init /\ [][Next]_vars

----------------------------------------------------------------------------
(* The front end, run_cli, driving one manager: the commands allocate,      *)
(* deallocate and strategy.  map only prints and quit ends the loop.        *)

\* Slip: Process.next_pid is not incremented.
Process_NoIncrement(size_required) ==
    [pid |-> next_pid, size_required |-> size_required,
     next_pid |-> next_pid]

\* Process.__init__: the new process takes Process.next_pid, which then
\* advances; next_pid is the value of the class variable afterwards.
Process(size_required) ==
    [pid |-> next_pid, size_required |-> size_required,
     next_pid |-> next_pid + 1]

\* After the two input loops of run_cli: a manager of a positive size and
\* one of the two strategies chosen.
InitCLI ==
    /\ total_memory_size \in 1..MaxTotal
    /\ memory = << FreeBlock(0, total_memory_size) >>
    /\ call = [op |-> "init"]
    /\ ret = None
    /\ pre = memory
    /\ coalesced = FALSE
    /\ current_strategy \in {"first_fit", "best_fit"}
    /\ next_pid = 1
    /\ processes = {}
    /\ passed = << >>
    /\ other = [memory |-> << FreeBlock(0, total_memory_size) >>,
                current_strategy |-> NoStrategy, ret |-> None]

\* allocate <size>
CmdAllocate(size) ==
    LET new_process == Process(size) IN
    /\ next_pid <= MaxProcesses
    /\ next_pid' = new_process.next_pid
    /\ Allocate(new_process.pid, size, current_strategy)
    /\ passed' = Append(passed, new_process.pid)
    /\ processes' = IF ret' # None THEN processes \cup {new_process.pid}
                    ELSE processes
    /\ UNCHANGED <<current_strategy, other>>

\* deallocate <pid>
CmdDeallocate(pid_to_deallocate) ==
    IF pid_to_deallocate \in processes
    THEN /\ Deallocate(pid_to_deallocate)
         /\ processes' = IF ret' THEN processes \ {pid_to_deallocate}
                         ELSE processes
         /\ UNCHANGED <<current_strategy, next_pid, passed, other>>
    ELSE UNCHANGED vars

\* strategy <name>
CmdStrategy(new_strategy) ==
    IF new_strategy \in {"first_fit", "best_fit"}
    THEN /\ current_strategy' = new_strategy
         /\ UNCHANGED <<manager, next_pid, processes, passed, other>>
    ELSE UNCHANGED vars

NextCLI ==
    \/ \E size \in Sizes(total_memory_size) : CmdAllocate(size)
    \/ \E pid_to_deallocate \in 1..(MaxProcesses + 1) :
            CmdDeallocate(pid_to_deallocate)
    \/ \E new_strategy \in Strategies : CmdStrategy(new_strategy)

SpecCLI == InitCLI /\ [][NextCLI]_vars

----------------------------------------------------------------------------
(* Two managers of the same total size that receive the same calls, while   *)
(* the front end of each sets its current_strategy attribute at will        *)
(* (manager.current_strategy = current_strategy in run_cli).  Of the last   *)
(* call only the method and the two results are recorded here.              *)

\* The fields of a MemoryManager that its methods can read.
Self(mem, strategy_attribute) ==
    [memory |-> mem, current_strategy |-> strategy_attribute]

\* Slip: the lookup uses self.current_strategy instead of the argument.
method_allocate_memory_UsesAttribute(self, process_id, size_required, strategy) ==
    allocate_memory(self.memory, process_id, size_required,
                    self.current_strategy)

\* allocate_memory as a method: of self it reads self.memory only.
method_allocate_memory(self, process_id, size_required, strategy) ==
    allocate_memory(self.memory, process_id, size_required, strategy)

\* deallocate_memory as a method.
method_deallocate_memory(self, process_id) ==
    deallocate_memory(self.memory, process_id)

PairSetStrategy(new_strategy) ==
    /\ current_strategy' = new_strategy
    /\ UNCHANGED <<manager, next_pid, processes, passed, other>>

PairSetOtherStrategy(new_strategy) ==
    /\ other' = [other EXCEPT !.current_strategy = new_strategy]
    /\ UNCHANGED <<manager, front_end>>

PairAllocate(process_id, size_required, strategy) ==
    LET r == method_allocate_memory(Self(memory, current_strategy),
                                    process_id, size_required, strategy)
        r2 == method_allocate_memory(Self(other.memory, other.current_strategy),
                                     process_id, size_required, strategy)
    IN
    /\ memory' = r.memory
    /\ ret' = r.ret
    /\ call' = [op |-> "allocate"]
    /\ other' = [other EXCEPT !.memory = r2.memory, !.ret = r2.ret]
    /\ UNCHANGED <<total_memory_size, pre, coalesced, front_end>>

PairDeallocate(process_id) ==
    LET r == method_deallocate_memory(Self(memory, current_strategy), process_id)
        r2 == method_deallocate_memory(Self(other.memory, other.current_strategy),
                                       process_id)
    IN
    /\ memory' = r.memory
    /\ ret' = r.ret
    /\ call' = [op |-> "deallocate"]
    /\ other' = [other EXCEPT !.memory = r2.memory, !.ret = r2.ret]
    /\ UNCHANGED <<total_memory_size, pre, coalesced, front_end>>

NextPair ==
    \/ \E new_strategy \in {"first_fit", "best_fit"} :
            PairSetStrategy(new_strategy)
    \/ \E new_strategy \in {"first_fit", "best_fit"} :
            PairSetOtherStrategy(new_strategy)
    \/ \E process_id \in Pids, size_required \in Sizes(total_memory_size),
          strategy \in Strategies :
            PairAllocate(process_id, size_required, strategy)
    \/ \E process_id \in Pids : PairDeallocate(process_id)

SpecPair == Init /\ [][NextPair]_vars

----------------------------------------------------------------------------
(* _coalesce_free_blocks on its own, applied to any block list that tiles   *)
(* the address space, runs of adjacent free blocks included.                *)

\* The blocks {'start', 'size', 'status', 'pid'} that can begin at start in
\* an address space of size total.
BlocksAt(start, total) ==
    UNION { {FreeBlock(start, size)}
              \cup {OccupiedBlock(start, size, process_id) : process_id \in Pids}
            : size \in 1..(total - start) }

\* Every block list that covers start .. total-1 without gap or overlap.
RECURSIVE TilingsFrom(_, _)
TilingsFrom(start, total) ==
    IF start = total THEN { << >> }
    ELSE UNION { { << block >> \o rest :
                     rest \in TilingsFrom(start + block.size, total) }
                 : block \in BlocksAt(start, total) }

InitCoalesce ==
    /\ total_memory_size \in 1..MaxTotal
    /\ memory \in TilingsFrom(0, total_memory_size)
    /\ call = [op |-> "init"]
    /\ ret = None
    /\ pre = memory
    /\ coalesced = FALSE
    /\ current_strategy = NoStrategy
    /\ next_pid = 1
    /\ processes = {}
    /\ passed = << >>
    /\ other = [memory |-> << FreeBlock(0, total_memory_size) >>,
                current_strategy |-> NoStrategy, ret |-> None]

Coalesce ==
    /\ memory' = _coalesce_free_blocks(memory)
    /\ call' = [op |-> "_coalesce_free_blocks"]
    /\ ret' = None
    /\ pre' = memory
    /\ coalesced' = TRUE
    /\ UNCHANGED <<total_memory_size, front_end, other>>

NextCoalesce == Coalesce

SpecCoalesce == InitCoalesce /\ [][NextCoalesce]_vars

----------------------------------------------------------------------------
(* Vocabulary of the properties.                                            *)

IsFree(b) == b.status = "free"
IsOccupied(b) == b.status = "occupied"

RECURSIVE SumSizes(_, _)
SumSizes(mem, i) == IF i > Len(mem) THEN 0 ELSE mem[i].size + SumSizes(mem, i + 1)

RECURSIVE SumFree(_, _)
SumFree(mem, i) ==
    IF i > Len(mem) THEN 0
    ELSE (IF IsFree(mem[i]) THEN mem[i].size ELSE 0) + SumFree(mem, i + 1)

\* mem covers 0 .. t-1 with blocks of positive size, in order, without gap
\* or overlap.
Tiles(mem, t) ==
    /\ Len(mem) >= 1
    /\ mem[1].start = 0
    /\ \A i \in 1..Len(mem) : mem[i].size >= 1
    /\ \A i \in 1..(Len(mem) - 1) : mem[i].start + mem[i].size = mem[i + 1].start
    /\ SumSizes(mem, 1) = t

NoAdjacentFree(mem) ==
    \A i \in 1..(Len(mem) - 1) : ~(IsFree(mem[i]) /\ IsFree(mem[i + 1]))

\* Some free block of mem can hold size.
Fits(mem, size) == \E i \in 1..Len(mem) : IsFree(mem[i]) /\ mem[i].size >= size

Holds(mem, process_id) ==
    \E i \in 1..Len(mem) : IsOccupied(mem[i]) /\ mem[i].pid = process_id

AllocateReturned == call.op = "allocate"
AllocateSucceeded == call.op = "allocate" /\ ret # None
AllocateFailed == call.op = "allocate" /\ ret = None
DeallocateReturned == call.op = "deallocate"

----------------------------------------------------------------------------
\* C1: after any sequence of allocate_memory / deallocate_memory calls,
\* failing ones included, the block list tiles the address space: it starts
\* at 0, every block has size >= 1, each block ends where the next starts,
\* and the sizes sum to total_memory_size.
C1_BlockListTiles == Tiles(memory, total_memory_size)

\* A free block lying between two occupied blocks was split.
C1_Witness ==
    /\ AllocateSucceeded
    /\ Len(memory) = Len(pre) + 1
    /\ ret > 0
    /\ \E i \in 1..Len(pre) : IsOccupied(pre[i]) /\ pre[i].start > ret

\* C2: in every state between calls (after construction and after each
\* allocate_memory or deallocate_memory call, successful or not) no two
\* adjacent blocks are both free.
C2_NoAdjacentFree == NoAdjacentFree(memory)

\* A block lying between two free blocks was freed: the three were merged
\* into one, beside a block that is still occupied.
C2_Witness ==
    /\ DeallocateReturned /\ ret = TRUE
    /\ Len(memory) = Len(pre) - 2
    /\ Len(memory) >= 2

\* C3: no double ownership: for every owner id at most one occupied block
\* carries that id, whatever calls were made.
C3_NoDoubleOwnership ==
    \A i, j \in 1..Len(memory) :
        (IsOccupied(memory[i]) /\ IsOccupied(memory[j])
            /\ memory[i].pid = memory[j].pid) => i = j

\* C4: round trip: from any reachable state, if allocate_memory(owner, S,
\* strategy) succeeds with address a, then deallocate_memory(owner) followed
\* by the same allocate_memory call succeeds with address a again.
C4_RoundTrip ==
    \A process_id \in Pids, size_required \in Sizes(total_memory_size),
       strategy \in {"first_fit", "best_fit"} :
        LET first == allocate_memory(memory, process_id, size_required, strategy)
            freed == deallocate_memory(first.memory, process_id)
            second == allocate_memory(freed.memory, process_id, size_required,
                                      strategy)
        IN first.ret # None => second.ret = first.ret

\* The index of the block of mem that starts at address a, 0 if none does.
IndexAt(mem, a) ==
    IF \E i \in 1..Len(mem) : mem[i].start = a
    THEN CHOOSE i \in 1..Len(mem) : mem[i].start = a
    ELSE 0

\* C5: a successful first_fit allocation returns the start of the
\* lowest-address free block of the pre-state whose size is >= size_required:
\* no free block with a smaller start is large enough.
C5_FirstFitLowestAddress ==
    (AllocateSucceeded /\ call.strategy = "first_fit") =>
        \E i \in 1..Len(pre) :
            /\ IsFree(pre[i])
            /\ pre[i].size >= call.size
            /\ pre[i].start = ret
            /\ \A j \in 1..Len(pre) :
                  (IsFree(pre[j]) /\ pre[j].start < pre[i].start)
                      => pre[j].size < call.size

\* first_fit passed over a free block that was too small.
C5_Witness ==
    /\ AllocateSucceeded /\ call.strategy = "first_fit"
    /\ \E j \in 1..Len(pre) : IsFree(pre[j]) /\ pre[j].start < ret

\* The block list of the best-fit example: free blocks of sizes 50, 20 and
\* 80 with two occupied blocks between them.
ScenarioF ==
    << FreeBlock(0, 50), OccupiedBlock(50, 1, 1), FreeBlock(51, 20),
       OccupiedBlock(71, 1, 2), FreeBlock(72, 80) >>

\* C6: a successful best_fit allocation returns the start of a free block of
\* the pre-state that is large enough and has the minimum size among those,
\* and of several such blocks the one with the smallest start; on free sizes
\* [50, 20, 80] a request of 15 selects the size-20 block.
C6_BestFitMinimumLeftover ==
    /\ (AllocateSucceeded /\ call.strategy = "best_fit") =>
          \E i \in 1..Len(pre) :
              /\ IsFree(pre[i])
              /\ pre[i].size >= call.size
              /\ pre[i].start = ret
              /\ \A j \in 1..Len(pre) :
                    (IsFree(pre[j]) /\ pre[j].size >= call.size) =>
                        \/ pre[j].size > pre[i].size
                        \/ pre[j].size = pre[i].size
                              /\ pre[j].start >= pre[i].start
    /\ allocate_memory(ScenarioF, 3, 15, "best_fit").ret = 51

\* best_fit chose a block behind a larger free block that would also fit.
C6_Witness ==
    /\ AllocateSucceeded /\ call.strategy = "best_fit"
    /\ \E j \in 1..Len(pre) :
          /\ IsFree(pre[j])
          /\ pre[j].start < ret
          /\ pre[j].size >= call.size

\* C7: a successful allocation into a free block of exactly size_required
\* leaves the block count unchanged and makes that block occupied by the
\* owner, with the same start and size; into a larger block it adds exactly
\* one block, replacing the selected block in place by an occupied block
\* (original start, size_required, owner) followed by a free block
\* (start + size_required, original size - size_required).  Every other block
\* is unchanged.
C7_ExactFitOrSplit ==
    AllocateSucceeded =>
        LET i == IndexAt(pre, ret) IN
        /\ i # 0
        /\ IsFree(pre[i])
        /\ IF pre[i].size = call.size
           THEN /\ Len(memory) = Len(pre)
                /\ memory[i] = OccupiedBlock(pre[i].start, pre[i].size, call.pid)
                /\ \A k \in 1..Len(pre) : k # i => memory[k] = pre[k]
           ELSE /\ pre[i].size > call.size
                /\ Len(memory) = Len(pre) + 1
                /\ memory[i] = OccupiedBlock(pre[i].start, call.size, call.pid)
                /\ memory[i + 1] = FreeBlock(pre[i].start + call.size,
                                             pre[i].size - call.size)
                /\ \A k \in 1..(i - 1) : memory[k] = pre[k]
                /\ \A k \in (i + 1)..Len(pre) : memory[k + 1] = pre[k]

\* An exact fit into a block with neighbours on both sides.
C7_Witness ==
    /\ AllocateSucceeded
    /\ Len(memory) = Len(pre)
    /\ ret > 0
    /\ \E k \in 1..Len(pre) : pre[k].start > ret

\* C8: for size_required > 0 and a supported strategy, allocate_memory fails
\* exactly when no free block of the pre-state has size >= size_required; so
\* in every reachable state a request succeeds under first_fit exactly when
\* it succeeds under best_fit.  (The failure with enough free memory in
\* total is the witness.)
C8_FailsIffNoBlockFits ==
    /\ (AllocateReturned /\ call.size > 0
            /\ call.strategy \in {"first_fit", "best_fit"}) =>
          (ret = None <=> ~Fits(pre, call.size))
    /\ \A process_id \in Pids, size_required \in 1..(total_memory_size + 1) :
          (allocate_memory(memory, process_id, size_required, "first_fit").ret
              = None)
          <=> (allocate_memory(memory, process_id, size_required, "best_fit").ret
              = None)

\* A request failed although the free blocks together are large enough.
C8_Witness ==
    /\ AllocateFailed /\ call.size > 0
    /\ call.strategy \in {"first_fit", "best_fit"}
    /\ SumFree(pre, 1) >= call.size

\* C9: an allocate_memory call with size_required <= 0, with a strategy
\* other than first_fit / best_fit, or with no free block large enough
\* fails, and every failing call returns no address and leaves the block
\* list exactly as it was; on total 300 a request of 310 leaves
\* [Free(0,300)].
C9_FailureLeavesListUnchanged ==
    /\ AllocateReturned =>
          /\ (\/ call.size <= 0
              \/ call.strategy \notin {"first_fit", "best_fit"}
              \/ ~Fits(pre, call.size)) => ret = None
          /\ ret = None => memory = pre
    /\ \A strategy \in {"first_fit", "best_fit"} :
          allocate_memory(<< FreeBlock(0, 300) >>, 1, 310, strategy)
              = [memory |-> << FreeBlock(0, 300) >>, ret |-> None]

\* A request with a supported strategy and a non-positive size failed on a
\* list that holds both occupied and free blocks.
C9_Witness ==
    /\ AllocateFailed
    /\ call.size <= 0
    /\ call.strategy \in {"first_fit", "best_fit"}
    /\ \E i, j \in 1..Len(pre) : IsOccupied(pre[i]) /\ IsFree(pre[j])

\* C10: deallocate_memory returns True exactly when some occupied block of
\* the pre-state carries the owner id; otherwise it returns False, does not
\* run coalescing and leaves the block list unchanged.
C10_UnknownOwnerFails ==
    DeallocateReturned =>
        /\ ret = Holds(pre, call.pid)
        /\ ~Holds(pre, call.pid) =>
              /\ ret = FALSE
              /\ coalesced = FALSE
              /\ memory = pre

\* A deallocation failed for an owner without a block while another owner
\* holds one.
C10_Witness ==
    /\ DeallocateReturned /\ ret = FALSE
    /\ \E i \in 1..Len(pre) : IsOccupied(pre[i]) /\ pre[i].pid # call.pid

\* The block list of the two-deallocation example: total 500, owner 1 holds
\* 200 and owner 2 holds 100.
ScenarioD ==
    allocate_memory(
        allocate_memory(<< FreeBlock(0, 500) >>, 1, 200, "first_fit").memory,
        2, 100, "first_fit").memory

\* The block list after deallocate_memory(first) and then
\* deallocate_memory(second).
FreedInOrder(mem, first, second) ==
    deallocate_memory(deallocate_memory(mem, first).memory, second).memory

\* C11: deallocation order independence: in every reachable state in which
\* two distinct owners a and b each hold an occupied block,
\* deallocate_memory(a) then deallocate_memory(b) gives the same block list
\* as deallocate_memory(b) then deallocate_memory(a); on total 500 with
\* blocks of 200 and 100 either order gives the single block Free(0,500).
C11_DeallocationOrderIndependent ==
    /\ \A a, b \in Pids :
          (a # b /\ Holds(memory, a) /\ Holds(memory, b)) =>
              FreedInOrder(memory, a, b) = FreedInOrder(memory, b, a)
    /\ FreedInOrder(ScenarioD, 1, 2) = << FreeBlock(0, 500) >>
    /\ FreedInOrder(ScenarioD, 2, 1) = << FreeBlock(0, 500) >>

\* Two owners hold neighbouring blocks with free blocks around them, so
\* the two orders pass through different lists and both merge blocks.
C11_Witness ==
    \E a, b \in Pids :
        /\ a # b /\ Holds(memory, a) /\ Holds(memory, b)
        /\ deallocate_memory(memory, a).memory # deallocate_memory(memory, b).memory
        /\ Len(deallocate_memory(memory, a).memory) < Len(memory)
        /\ Len(deallocate_memory(memory, b).memory) < Len(memory)
        /\ Len(FreedInOrder(memory, a, b)) < Len(memory) - 2

CoalesceReturned == call.op = "_coalesce_free_blocks"

\* C12: coalescing idempotence: for any block list that tiles the address
\* space, runs of adjacent free blocks included, running
\* _coalesce_free_blocks on the result of a first run changes nothing.
C12_CoalescingIdempotent ==
    CoalesceReturned => _coalesce_free_blocks(memory) = memory

\* A first run merged a run of three free blocks, or two runs, beside an
\* occupied block.
C12_Witness ==
    /\ CoalesceReturned
    /\ Len(memory) <= Len(pre) - 2
    /\ \E i \in 1..Len(memory) : IsOccupied(memory[i])

\* C13: allocate_memory has no hidden inputs: two managers with equal block
\* lists that receive the same (owner, size_required, strategy) call return
\* the same result and end with equal block lists, whatever the values of
\* their current_strategy attributes.
C13_NoHiddenInput ==
    /\ memory = other.memory
    /\ AllocateReturned => ret = other.ret

\* The same allocation succeeded on both managers, in a list of several
\* blocks, while the front ends had set their current_strategy attributes
\* to different strategies.
C13_Witness ==
    /\ AllocateSucceeded
    /\ Len(memory) >= 3
    /\ current_strategy # other.current_strategy
    /\ current_strategy # NoStrategy
    /\ other.current_strategy # NoStrategy

\* The three failing requests on block list mem: a non-positive size, an
\* unsupported strategy, and a size no block can hold.
InvalidRequestResult(mem) == allocate_memory(mem, 1, 0, "first_fit").ret
UnknownStrategyResult(mem) == allocate_memory(mem, 1, 1, "worst_fit").ret
OutOfMemoryResult(mem) ==
    allocate_memory(mem, 1, total_memory_size + 1, "first_fit").ret

\* C14 as claimed: the results of allocate_memory for size_required <= 0,
\* for an unsupported strategy and for no free block large enough are three
\* distinguishable results.
C14_FailuresDistinguishable ==
    /\ InvalidRequestResult(memory) # UnknownStrategyResult(memory)
    /\ InvalidRequestResult(memory) # OutOfMemoryResult(memory)
    /\ UnknownStrategyResult(memory) # OutOfMemoryResult(memory)

\* C14 as amended: allocate_memory returns None for each of the three
\* failures, so they are not distinguishable from each other by the result,
\* and None is distinguishable from every successful result, which is an
\* address in 0 .. total_memory_size - 1.
C14_FailuresReturnNone ==
    /\ InvalidRequestResult(memory) = None
    /\ UnknownStrategyResult(memory) = None
    /\ OutOfMemoryResult(memory) = None
    /\ None \notin 0..(total_memory_size - 1)
    /\ AllocateReturned =>
          IF \/ call.size <= 0
             \/ call.strategy \notin {"first_fit", "best_fit"}
             \/ ~Fits(pre, call.size)
          THEN ret = None
          ELSE ret \in 0..(total_memory_size - 1)

\* A request that a free block could hold failed for its strategy alone.
C14_Witness ==
    /\ AllocateFailed
    /\ call.strategy \notin {"first_fit", "best_fit"}
    /\ call.size > 0
    /\ Fits(pre, call.size)
    /\ Len(pre) >= 2

\* The addresses of 0 .. total_memory_size - 1 that lie in a block of mem
\* with the given status.
Addresses(mem, status) ==
    { a \in 0..(total_memory_size - 1) :
        \E i \in 1..Len(mem) :
            /\ mem[i].status = status
            /\ mem[i].start <= a
            /\ a < mem[i].start + mem[i].size }

UtilizationReturned == call.op = "get_memory_utilization"
FreeBlockInfoReturned == call.op = "get_free_block_info"

\* C15: in every reachable state get_memory_utilization returns
\* occupied_bytes equal to the total size of the occupied blocks and
\* free_bytes = total_memory_size - occupied_bytes, which equals the total
\* size of the free blocks in the list; the query leaves the list unchanged.
C15_UtilizationMatchesBlocks ==
    UtilizationReturned =>
        /\ ret.occupied_size = Cardinality(Addresses(pre, "occupied"))
        /\ ret.free_size = total_memory_size - ret.occupied_size
        /\ ret.free_size = Cardinality(Addresses(pre, "free"))
        /\ ret.free_size = SumFree(pre, 1)
        /\ memory = pre

\* The query ran on a list with free and occupied blocks of different
\* total sizes.
C15_Witness ==
    /\ UtilizationReturned
    /\ ret.occupied_size > 0
    /\ ret.free_size > 0
    /\ ret.occupied_size # ret.free_size
    /\ Len(pre) >= 3

\* C16: in every reachable state get_free_block_info returns the number,
\* the maximum size and the minimum size of the free blocks; largest and
\* smallest are both 0 exactly when there is no free block, and smallest is
\* at least 1 when there is one; the query leaves the list unchanged.
C16_FreeBlockInfoMatchesBlocks ==
    FreeBlockInfoReturned =>
        LET free == { i \in 1..Len(pre) : IsFree(pre[i]) } IN
        /\ ret.num_free_blocks = Cardinality(free)
        /\ free = {} =>
              ret.largest_free_block = 0 /\ ret.smallest_free_block = 0
        /\ free # {} =>
              /\ \E i \in free : pre[i].size = ret.largest_free_block
              /\ \A i \in free : pre[i].size <= ret.largest_free_block
              /\ \E i \in free : pre[i].size = ret.smallest_free_block
              /\ \A i \in free : pre[i].size >= ret.smallest_free_block
              /\ ret.smallest_free_block >= 1
        /\ (ret.largest_free_block = 0 /\ ret.smallest_free_block = 0)
              <=> ret.num_free_blocks = 0
        /\ memory = pre

\* The query ran on a list with free blocks of different sizes.
C16_Witness ==
    /\ FreeBlockInfoReturned
    /\ ret.num_free_blocks >= 2
    /\ ret.largest_free_block > ret.smallest_free_block

\* The occupied blocks of mem.
OccupiedBlocks(mem) == { mem[i] : i \in { j \in 1..Len(mem) : IsOccupied(mem[j]) } }

\* The addresses of block b.
Range(b) == b.start..(b.start + b.size - 1)

\* C17: a successful deallocate_memory(owner) frees exactly one block, the
\* lowest-address occupied block of that owner: afterwards its addresses
\* lie inside one free block without owner, every other occupied block of
\* the pre-state is still there with the same start, size and owner, and
\* nothing else changed but the merging of each run of consecutive free
\* blocks into one free block (the free addresses are those of the pre-state
\* plus the freed block's, in a list that tiles the space with no two
\* adjacent free blocks).
C17_FreesLowestBlockOfOwner ==
    (DeallocateReturned /\ ret = TRUE) =>
        LET owned == { i \in 1..Len(pre) :
                          IsOccupied(pre[i]) /\ pre[i].pid = call.pid }
            lowest == CHOOSE i \in owned :
                          \A j \in owned : pre[i].start <= pre[j].start
            freed == pre[lowest]
        IN
        /\ \E k \in 1..Len(memory) :
              /\ IsFree(memory[k])
              /\ memory[k].pid = None
              /\ Range(freed) \subseteq Range(memory[k])
        /\ OccupiedBlocks(memory) = OccupiedBlocks(pre) \ {freed}
        /\ Cardinality(OccupiedBlocks(memory))
              = Cardinality(OccupiedBlocks(pre)) - 1
        /\ Addresses(memory, "free")
              = Addresses(pre, "free") \cup Range(freed)
        /\ \A k \in 1..Len(memory) : IsFree(memory[k]) => memory[k].pid = None
        /\ Tiles(memory, total_memory_size)
        /\ NoAdjacentFree(memory)

\* The owner held two blocks; the lower one was freed and merged with a
\* free neighbour.
C17_Witness ==
    /\ DeallocateReturned /\ ret = TRUE
    /\ Holds(memory, call.pid)
    /\ Len(memory) < Len(pre)

\* The number of occupied blocks of mem.
LiveAllocations(mem) == Cardinality({ i \in 1..Len(mem) : IsOccupied(mem[i]) })

\* C18: the block count is bounded by the number of live allocations: with
\* k occupied blocks the list has at most 2k + 1 blocks, at most k + 1 of
\* them free.
C18_BlockCountBounded ==
    /\ Len(memory) <= 2 * LiveAllocations(memory) + 1
    /\ Len(memory) - LiveAllocations(memory) <= LiveAllocations(memory) + 1

\* The bound is met: after a deallocation every occupied block lies between
\* two free blocks.
C18_Witness ==
    /\ DeallocateReturned /\ ret = TRUE
    /\ LiveAllocations(memory) >= 1
    /\ Len(memory) = 2 * LiveAllocations(memory) + 1

\* C19: when the manager is driven through the front-end command loop only,
\* no pid is passed to allocate_memory twice and no two occupied blocks
\* carry the same pid, under any interleaving of allocate, deallocate and
\* strategy commands (failing allocations included).
C19_FrontEndPidsUnique ==
    /\ \A i, j \in 1..Len(passed) : passed[i] = passed[j] => i = j
    /\ \A i, j \in 1..Len(memory) :
          (IsOccupied(memory[i]) /\ IsOccupied(memory[j])
              /\ memory[i].pid = memory[j].pid) => i = j

\* An allocate command failed and still used up a pid, while two earlier
\* processes hold blocks and an earlier one was deallocated.
C19_Witness ==
    /\ AllocateFailed
    /\ call.pid = next_pid - 1
    /\ Len(passed) >= 4
    /\ LiveAllocations(memory) >= 2
    /\ Cardinality(processes) = LiveAllocations(memory)

\* The owners that hold a block of mem.
Owners(mem) == { b.pid : b \in OccupiedBlocks(mem) }

\* Whatever owner is deallocated next, successful deallocate_memory calls
\* repeated until no occupied block remains end in the initial list.
RECURSIVE DrainsToInitial(_)
DrainsToInitial(mem) ==
    IF Owners(mem) = {}
    THEN mem = << FreeBlock(0, total_memory_size) >>
    ELSE \A process_id \in Owners(mem) :
            /\ deallocate_memory(mem, process_id).ret = TRUE
            /\ DrainsToInitial(deallocate_memory(mem, process_id).memory)

\* C20: full recovery: every reachable state without an occupied block is
\* the initial list, one free block with start 0 and size
\* total_memory_size; and from every reachable state, successful
\* deallocate_memory calls issued until no occupied block remains end in
\* that list, in whatever order the owners are taken.
C20_FullRecovery ==
    /\ LiveAllocations(memory) = 0
          => memory = << FreeBlock(0, total_memory_size) >>
    /\ DrainsToInitial(memory)

\* The last occupied block, lying between two free blocks, was freed.
C20_Witness ==
    /\ DeallocateReturned /\ ret = TRUE
    /\ LiveAllocations(memory) = 0
    /\ Len(pre) >= 3

====
